---- MODULE Spec2Model ----
(***************************************************************************)
(* GeneratePInvokePass (Source/CSharp/Generator/Pass/CSharp):              *)
(*   - the pass itself: Visit appends lines to the printer for every       *)
(*     declaration event of a traversal (specification Spec);              *)
(*   - the C# members the class ENTER branch emits (handle constructor,    *)
(*     Dispose, finalizer), executed line by line by concurrent callers    *)
(*     (specification SpecRuntime).  The statements executed are the very  *)
(*     lines the model of Visit emits, so what is inside the gate is       *)
(*     decided by the emitted Indent/Dedent, not restated by hand.         *)
(***************************************************************************)
EXTENDS Integers, Sequences, FiniteSets, TLC

VARIABLES
    printer_,   \* GeneratePInvokePass::printer_ : [lines, indent]
    stack,      \* traversal frame: the declarations entered and not yet exited
    events,     \* the Visit calls made so far, in order, with what each returned
    started,    \* Start() has run
    file,       \* what Stop() did: the output file and the error log
    wrapper,    \* runtime: the managed wrapper object [chain, code, instance_, disposed_]
    cache_,     \* runtime: per class, the keys held by its static cache_
    refs,       \* runtime: native reference count of each handle
    threads,    \* runtime: per caller, its call stack and bookkeeping
    log,        \* runtime: per call made, its gate result and the steps it took
    acc         \* LightAccumulatorBase: its fields and the lights handed to it

vars == <<printer_, stack, events, started, file, wrapper, cache_, refs, threads, log, acc>>
genVars == <<printer_, stack, events, started, file>>
runVars == <<wrapper, cache_, refs, threads, log>>
lightVars == <<acc>>

(***************************************************************************)
(* Bounds of the model.                                                    *)
(***************************************************************************)
\* Number of Visit calls in one traversal.
MaxEvents == 4
\* Depth of the traversal frame: declarations entered and not yet exited.
MaxDepth == 2
\* Explicit Dispose calls made on the wrapper, over all caller threads.
MaxCalls == 3

(***************************************************************************)
(* Strings.                                                                *)
(***************************************************************************)
RECURSIVE Joined(_, _)
\* String::Joined(parts, glue)
Joined(parts, glue) ==
    IF parts = <<>> THEN ""
    ELSE IF Len(parts) = 1 THEN parts[1]
    ELSE parts[1] \o glue \o Joined(Tail(parts), glue)

\* Sanitize(symbolName_): every character that cannot be part of an identifier
\* becomes "_".  A qualified symbol is kept as its components (its text joins
\* them by "::"), so the sanitized text joins them by "_".
Sanitize(sym) == Joined(sym, "_")

(***************************************************************************)
(* Declarations.  One record shape for every kind, as the C++ classes      *)
(* share the Declaration base; fields a kind does not have hold defaults.  *)
(***************************************************************************)
NoParent == [kind_ |-> "None", name_ |-> "", symbolName_ |-> <<>>]

Decl(kind, name, sym) ==
    [kind_ |-> kind, name_ |-> name, symbolName_ |-> sym, parent_ |-> NoParent,
     cFunctionName_ |-> "", bases_ |-> <<>>, isRefCounted |-> FALSE,
     isStatic_ |-> FALSE, type |-> "void", params |-> <<>>, isVirtual |-> FALSE]

ClassDecl(name, sym, bases, rc) ==
    [Decl("Class", name, sym) EXCEPT !.bases_ = bases, !.isRefCounted = rc]

\* Class::IsSubclassOf("Urho3D::RefCounted")
IsSubclassOfRefCounted(cls) == cls.isRefCounted

\* Declaration kinds Visit has a branch for.
HandledKinds == {"Class", "Variable", "Constructor", "Method"}

Param(t, n) == [type |-> t, name |-> n]

(***************************************************************************)
(* Type mapping policy (TypeMapper).                                       *)
(***************************************************************************)
NativeTypes == {"int", "String"}

ToPInvokeTypeParam(t) ==
    CASE t = "String" -> "string"
      [] t = "int" -> "int"
      [] t = "float" -> "float"
      [] t = "void" -> "void"
      [] OTHER -> "IntPtr"

ToPInvokeTypeReturn(t, canCopy) ==
    CASE t = "String" -> "string"
      [] t = "int" -> "int"
      [] t = "float" -> "float"
      [] t = "void" -> "void"
      [] OTHER -> "IntPtr"

RECURSIVE MapParams(_)
MapParams(params) ==
    IF params = <<>> THEN <<>>
    ELSE <<ToPInvokeTypeParam(params[1].type) \o " " \o params[1].name>>
         \o MapParams(Tail(params))

\* ParameterList(params, ToPInvokeTypeParam)
ParameterList(params) == Joined(MapParams(params), ", ")

(***************************************************************************)
(* The printer: lines with the indentation they were written at.           *)
(* Indent() opens a brace and Dedent() closes it.  An emission is a list   *)
(* of commands; Run applies them to a printer in order.                    *)
(***************************************************************************)
EmptyPrinter == [lines |-> <<>>, indent |-> 0]

\* printer_ << text      (kind: which statement of Visit wrote it;
\*                        name: the identifier the line declares, if any)
L(kind, text) == [op |-> "line", kind |-> kind, text |-> text, name |-> ""]
LN(kind, text, name) == [op |-> "line", kind |-> kind, text |-> text, name |-> name]
\* printer_.Indent() / printer_.Dedent()
IndentCmd == [op |-> "indent", kind |-> "{", text |-> "{", name |-> ""]
DedentCmd == [op |-> "dedent", kind |-> "}", text |-> "}", name |-> ""]
Blank == L("blank", "")

PrinterStep(p, c, ev, own) ==
    LET at == IF c.op = "dedent" THEN p.indent - 1 ELSE p.indent
        line == [kind |-> c.kind, text |-> c.text, name |-> c.name,
                 indent |-> at, ev |-> ev, own |-> own]
    IN [lines |-> Append(p.lines, line),
        indent |-> CASE c.op = "indent" -> p.indent + 1
                     [] c.op = "dedent" -> p.indent - 1
                     [] OTHER -> p.indent]

RECURSIVE Run(_, _, _, _)
Run(p, cmds, ev, own) ==
    IF cmds = <<>> THEN p
    ELSE Run(PrinterStep(p, Head(cmds), ev, own), Tail(cmds), ev, own)

(***************************************************************************)
(* GeneratePInvokePass::Start and the class ENTER / EXIT branch of Visit.  *)
(***************************************************************************)
dllImport == "[DllImport(\"Urho3DCSharp\", CallingConvention = CallingConvention.Cdecl)]"

StartCmds ==
    << L("using", "using System;"),
       L("using", "using System.Threading;"),
       L("using", "using System.Collections.Concurrent;"),
       L("using", "using System.Runtime.InteropServices;"),
       Blank,
       L("namespace", "namespace Urho3D"),
       L("namespace_open", "{"),
       Blank >>

\* {{#has_bases}}text{{/has_bases}}
IfHasBases(cls, text) == IF cls.bases_ # <<>> THEN text ELSE ""

\* Mutation: the cache is declared by hierarchy roots only.
HeaderCmds_CacheForRootOnly(cls) ==
    << L("class_head", "public partial class " \o cls.name_ \o " : "
                       \o IfHasBases(cls, Joined(cls.bases_, ", ") \o ", ")
                       \o "IDisposable"),
       IndentCmd >>
    \o (IF cls.bases_ = <<>>
        THEN << LN("cache", "internal static ConcurrentDictionary<IntPtr, " \o cls.name_
                            \o "> cache_ = new ConcurrentDictionary<IntPtr, "
                            \o cls.name_ \o ">();", "cache_") >>
        ELSE <<>>)
    \o << Blank >>

\* Class header and the identity cache declaration.
HeaderCmds(cls) ==
    << L("class_head", "public partial class " \o cls.name_ \o " : "
                       \o IfHasBases(cls, Joined(cls.bases_, ", ") \o ", ")
                       \o "IDisposable"),
       IndentCmd,
       LN("cache", "internal static " \o IfHasBases(cls, "new ")
                   \o "ConcurrentDictionary<IntPtr, " \o cls.name_
                   \o "> cache_ = new ConcurrentDictionary<IntPtr, "
                   \o cls.name_ \o ">();", "cache_"),
       Blank >>

\* Root: the handle and disposed fields and the constructor that stores the
\* handle (and adds a native reference when the class is reference-counted).
RootStorageCmds(cls, addRef) ==
    << LN("field_instance", "internal IntPtr instance_;", "instance_"),
       LN("field_disposed", "protected volatile int disposed_;", "disposed_"),
       Blank,
       L("ctor_head", "internal " \o cls.name_ \o "(IntPtr instance)"),
       IndentCmd,
       L("if_nonnull", "if (instance != IntPtr.Zero)"),
       IndentCmd,
       L("assign_instance", "instance_ = instance;") >>
    \o (IF addRef
        THEN << L("addref", "Urho3D__RefCounted__AddRef(instance);") >>
        ELSE <<>>)
    \o << DedentCmd,
          DedentCmd,
          Blank >>

\* Derived: a constructor forwarding the handle to the one of the base.
ProxyCtorCmds(cls) ==
    << L("ctor_proxy", "internal " \o cls.name_
                       \o "(IntPtr instance) : base(instance) { }"),
       Blank >>

\* Mutation: the test on the base list is inverted.
StorageCmds_GuardInverted(cls) ==
    IF cls.bases_ # <<>>
    THEN RootStorageCmds(cls, IsSubclassOfRefCounted(cls))
    ELSE ProxyCtorCmds(cls)

\* Mutation: every class declares the fields and the storing constructor.
StorageCmds_NoGuard(cls) == RootStorageCmds(cls, IsSubclassOfRefCounted(cls))

\* Mutation: the constructor adds a reference whatever the class.
StorageCmds_AddRefUnconditional(cls) ==
    IF cls.bases_ = <<>> THEN RootStorageCmds(cls, TRUE) ELSE ProxyCtorCmds(cls)

\* if (bases.Empty()) ... else ...
StorageCmds(cls) ==
    IF cls.bases_ = <<>>
    THEN RootStorageCmds(cls, IsSubclassOfRefCounted(cls))
    ELSE ProxyCtorCmds(cls)

\* The release step of Dispose: drop the native reference, or destroy.
ReleaseCmd(cls) ==
    IF IsSubclassOfRefCounted(cls)
    THEN L("release", "Urho3D__RefCounted__ReleaseRef(instance_);")
    ELSE L("destroy", Sanitize(cls.symbolName_) \o "_destructor(instance_);")

\* Mutation: the gated block is closed before the release step.
DisposeCmds_ReleaseUngated(cls) ==
    << L("dispose_head", "public" \o IfHasBases(cls, " new") \o " void Dispose()"),
       IndentCmd,
       L("if_gate", "if (Interlocked.Increment(ref disposed_) == 1)"),
       IndentCmd,
       L("var_self", "var self = this;"),
       L("cache_remove", "cache_.TryRemove(instance_, out self);"),
       DedentCmd,
       ReleaseCmd(cls),
       L("clear_instance", "instance_ = IntPtr.Zero;"),
       DedentCmd,
       Blank >>

\* public [new] void Dispose()
DisposeCmds(cls) ==
    << L("dispose_head", "public" \o IfHasBases(cls, " new") \o " void Dispose()"),
       IndentCmd,
       L("if_gate", "if (Interlocked.Increment(ref disposed_) == 1)"),
       IndentCmd,
       L("var_self", "var self = this;"),
       L("cache_remove", "cache_.TryRemove(instance_, out self);"),
       ReleaseCmd(cls),
       DedentCmd,
       L("clear_instance", "instance_ = IntPtr.Zero;"),
       DedentCmd,
       Blank >>

\* Mutation: the finalizer body is opened and never closed.
FinalizerCmds_Unclosed(cls) ==
    << L("finalizer_head", "~" \o cls.name_ \o "()"),
       IndentCmd,
       L("call_dispose", "Dispose();"),
       Blank >>

\* ~name() { Dispose(); }
FinalizerCmds(cls) ==
    << L("finalizer_head", "~" \o cls.name_ \o "()"),
       IndentCmd,
       L("call_dispose", "Dispose();"),
       DedentCmd,
       Blank >>

\* The destructor boundary function, declared whether or not the class has one.
DestructorCmds(cls) ==
    << L("dllimport", dllImport),
       LN("destructor_fn", "internal static extern void " \o Sanitize(cls.symbolName_)
                           \o "_destructor(IntPtr instance);",
          Sanitize(cls.symbolName_) \o "_destructor"),
       Blank >>

\* Mutation: the destructor declaration is written before Dispose.
ClassEnterCmds_DestructorBeforeDispose(cls) ==
    HeaderCmds(cls) \o StorageCmds(cls) \o DestructorCmds(cls)
    \o DisposeCmds(cls) \o FinalizerCmds(cls)

\* The class ENTER branch.
ClassEnterCmds(cls) ==
    HeaderCmds(cls) \o StorageCmds(cls) \o DisposeCmds(cls)
    \o FinalizerCmds(cls) \o DestructorCmds(cls)

ClassExitCmds == << DedentCmd, Blank >>

(***************************************************************************)
(* The member branches of Visit.                                           *)
(***************************************************************************)
\* Mutation: the marshaling annotation is written for the setter as well.
VariableCmds_MarshalBoth(var) ==
    LET csReturnType == ToPInvokeTypeReturn(var.type, FALSE)
        csParam == ToPInvokeTypeParam(var.type)
        marshal == IF csReturnType = "string"
                   THEN << L("marshal_ret", "[return: MarshalAs(UnmanagedType.LPUTF8Str)]") >>
                   ELSE <<>>
    IN << L("dllimport", dllImport) >> \o marshal
       \o << LN("getter_fn", "internal static extern " \o csReturnType \o " get_"
                             \o var.cFunctionName_ \o "(IntPtr cls);",
                "get_" \o var.cFunctionName_),
             Blank,
             L("dllimport", dllImport) >> \o marshal
       \o << LN("setter_fn", "internal static extern void set_" \o var.cFunctionName_
                             \o "(IntPtr cls, " \o csParam \o " value);",
                "set_" \o var.cFunctionName_),
             Blank >>

\* Getter and setter of a member variable.
VariableCmds(var) ==
    LET csReturnType == ToPInvokeTypeReturn(var.type, FALSE)
        csParam == ToPInvokeTypeParam(var.type)
    IN << L("dllimport", dllImport) >>
       \o (IF csReturnType = "string"
           THEN << L("marshal_ret", "[return: MarshalAs(UnmanagedType.LPUTF8Str)]") >>
           ELSE <<>>)
       \o << LN("getter_fn", "internal static extern " \o csReturnType \o " get_"
                             \o var.cFunctionName_ \o "(IntPtr cls);",
                "get_" \o var.cFunctionName_),
             Blank,
             L("dllimport", dllImport),
             LN("setter_fn", "internal static extern void set_" \o var.cFunctionName_
                             \o "(IntPtr cls, " \o csParam \o " value);",
                "set_" \o var.cFunctionName_),
             Blank >>

ConstructorCmds(ctor) ==
    << L("dllimport", dllImport),
       LN("ctor_fn", "internal static extern IntPtr " \o ctor.cFunctionName_ \o "("
                     \o ParameterList(ctor.params) \o ");", ctor.cFunctionName_),
       Blank >>

\* {{#has_params}}, {{cs_param_list}}{{/has_params}}
IfHasParams(func) ==
    IF func.params # <<>> THEN ", " \o ParameterList(func.params) ELSE ""

\* API for setting callbacks of virtual methods.
RegistrationCmds(func) ==
         LET csRetType == ToPInvokeTypeReturn(func.type, TRUE)
         IN << L("fnptr_attr", "[UnmanagedFunctionPointer(CallingConvention.Cdecl)]"),
               LN("delegate", "internal delegate " \o csRetType \o " " \o func.name_
                              \o "Delegate(IntPtr instance" \o IfHasParams(func) \o ");",
                  func.name_ \o "Delegate"),
               Blank,
               L("dllimport", dllImport),
               LN("register_fn", "internal static extern void set_" \o func.parent_.name_
                                 \o "_fn" \o func.name_ \o "(IntPtr instance, "
                                 \o func.name_ \o "Delegate cb);",
                  "set_" \o func.parent_.name_ \o "_fn" \o func.name_),
               Blank >>

\* Mutation: the registration block is written for every method.
VirtualCmds_Always(func) == RegistrationCmds(func)

\* if (func->IsVirtual()) ...
VirtualCmds(func) == IF func.isVirtual THEN RegistrationCmds(func) ELSE <<>>

MethodCmds(func) ==
    LET csRetType == ToPInvokeTypeReturn(func.type, TRUE)
    IN << L("dllimport", dllImport) >>
       \o (IF csRetType = "string"
           THEN << L("marshal_ret", "[return: MarshalAs(UnmanagedType.LPUTF8Str)]") >>
           ELSE <<>>)
       \o << LN("method_fn", "internal static extern " \o csRetType \o " "
                             \o func.cFunctionName_ \o "(IntPtr instance"
                             \o IfHasParams(func) \o ");", func.cFunctionName_),
             Blank >>
       \o VirtualCmds(func)

\* Mutation: static variables are not skipped.
VariableBranch_StaticNotSkipped(var) ==
    IF var.parent_.kind_ # "Class" THEN <<>> ELSE VariableCmds(var)

\* The Variable branch with its two early returns.
VariableBranch(var) ==
    IF var.parent_.kind_ # "Class" THEN <<>>
    ELSE IF var.isStatic_ THEN <<>>
    ELSE VariableCmds(var)

\* A Visit whose output depends on how many visits came before it.
VisitCmds_CountsVisits(decl, event) ==
    IF Len(events) = 0 THEN << Blank >> ELSE <<>>

\* What Visit(decl, event) appends: the dispatch on decl->kind_ and event.
VisitCmds(decl, event) ==
    CASE decl.kind_ = "Class" ->
            (CASE event = "ENTER" -> ClassEnterCmds(decl)
               [] event = "EXIT" -> ClassExitCmds
               [] OTHER -> <<>>)
      [] decl.kind_ = "Variable" -> VariableBranch(decl)
      [] decl.kind_ = "Constructor" -> ConstructorCmds(decl)
      [] decl.kind_ = "Method" -> MethodCmds(decl)
      [] OTHER -> <<>>

\* The value Visit returns: true on every path.
VisitResult(decl, event) == TRUE

(***************************************************************************)
(* The traversal: declarations of a small API, visited in tree order.      *)
(***************************************************************************)
GlobalNamespace == [kind_ |-> "Namespace", name_ |-> "", symbolName_ |-> <<>>, ev |-> 0]

ClassDecls ==
    { ClassDecl("Shape", <<"Urho3D", "Shape">>, <<>>, rc) : rc \in BOOLEAN }
    \cup { ClassDecl("Circle", <<"Urho3D", "Circle">>, <<"Shape">>, TRUE) }
    \cup { ClassDecl("Disc", <<"Urho3D", "Disc">>, <<"Circle", "Named">>, FALSE) }

NamespaceDecl == Decl("Namespace", "Detail", <<"Urho3D", "Detail">>)
EnumDecl == Decl("Enum", "Mode", <<"Urho3D", "Mode">>)

VariableDecls ==
    { [Decl("Variable", "name", <<>>) EXCEPT !.type = t] : t \in NativeTypes }
    \cup { [Decl("Variable", "count", <<>>) EXCEPT !.type = "String", !.isStatic_ = TRUE] }

ConstructorDecls ==
    { [Decl("Constructor", "Make", <<>>) EXCEPT !.params = ps] :
        ps \in { <<Param("int", "sides"), Param("String", "label")>> } }

MethodDecls ==
    { [Decl("Method", "Area", <<>>) EXCEPT !.type = sig[1], !.params = sig[2],
                                            !.isVirtual = v] :
        sig \in { <<"float", <<>>>>, <<"String", <<Param("int", "unit")>>>> },
        v \in BOOLEAN }

\* The declaration enclosing the one being visited.
Top == IF stack = <<>> THEN GlobalNamespace ELSE stack[Len(stack)]

\* A member as the earlier passes hand it to Visit: parent_ set, symbolName_
\* qualified by the parent, cFunctionName_ the sanitized symbol.
Resolve(decl, parent) ==
    LET sym == IF decl.symbolName_ = <<>>
               THEN Append(parent.symbolName_, decl.name_) ELSE decl.symbolName_
    IN [decl EXCEPT !.symbolName_ = sym,
                    !.parent_ = [kind_ |-> parent.kind_, name_ |-> parent.name_,
                                 symbolName_ |-> parent.symbolName_],
                    !.cFunctionName_ = Sanitize(sym)]

Frame(decl, ev) ==
    [kind_ |-> decl.kind_, name_ |-> decl.name_, symbolName_ |-> decl.symbolName_,
     ev |-> ev]

\* The class whose block a line belongs to (0: none).
Owner == IF Top.kind_ = "Class" THEN Top.ev ELSE 0

\* One call Visit(decl, event): the printer after it and the record of the call.
DoVisit(decl, event, own) ==
    LET ev == Len(events) + 1
        after == Run(printer_, VisitCmds(decl, event), ev, own)
    IN /\ printer_' = after
       /\ events' = Append(events, [decl |-> decl, event |-> event, own |-> own,
                                    ret |-> VisitResult(decl, event)])

\* The output file before Stop: not opened, nothing written, nothing logged.
NoFile == [state |-> "none", content |-> <<>>, writes |-> 0, closed |-> FALSE,
           errors |-> <<>>]

\* The accumulator of a specification that does not use it.
NoAccumulator == [lights_ |-> <<>>]

Init ==
    /\ printer_ = EmptyPrinter
    /\ stack = <<>>
    /\ events = <<>>
    /\ started = FALSE
    /\ file = NoFile
    /\ wrapper = [cls |-> 0, instance_ |-> 0, disposed_ |-> 0]
    /\ cache_ = <<>>
    /\ refs = 0
    /\ threads = <<>>
    /\ log = <<>>
    /\ acc = NoAccumulator

Start ==
    /\ ~started
    /\ started' = TRUE
    /\ printer_' = Run(printer_, StartCmds, 0, 0)
    /\ UNCHANGED <<stack, events, file>>
    /\ UNCHANGED <<runVars, lightVars>>

CanVisit == started /\ file.state = "none" /\ Len(events) < MaxEvents

VisitClassEnter(cls) ==
    /\ CanVisit
    /\ Len(stack) < MaxDepth
    /\ LET d == Resolve(cls, Top)
       IN /\ DoVisit(d, "ENTER", Len(events) + 1)
          /\ stack' = Append(stack, Frame(d, Len(events) + 1))
    /\ UNCHANGED <<started, file>>
    /\ UNCHANGED <<runVars, lightVars>>

VisitClassExit ==
    /\ CanVisit
    /\ Top.kind_ = "Class"
    /\ DoVisit(events[Top.ev].decl, "EXIT", Top.ev)
    /\ stack' = SubSeq(stack, 1, Len(stack) - 1)
    /\ UNCHANGED <<started, file>>
    /\ UNCHANGED <<runVars, lightVars>>

VisitNamespaceEnter ==
    /\ CanVisit
    /\ Len(stack) < MaxDepth
    /\ Top.kind_ = "Namespace"
    /\ DoVisit(Resolve(NamespaceDecl, Top), "ENTER", 0)
    /\ stack' = Append(stack, Frame(NamespaceDecl, Len(events) + 1))
    /\ UNCHANGED <<started, file>>
    /\ UNCHANGED <<runVars, lightVars>>

VisitNamespaceExit ==
    /\ CanVisit
    /\ stack # <<>>
    /\ Top.kind_ = "Namespace"
    /\ DoVisit(events[Top.ev].decl, "EXIT", 0)
    /\ stack' = SubSeq(stack, 1, Len(stack) - 1)
    /\ UNCHANGED <<started, file>>
    /\ UNCHANGED <<runVars, lightVars>>

VisitVariable(var) ==
    /\ CanVisit
    /\ DoVisit(Resolve(var, Top), "ENTER", Owner)
    /\ UNCHANGED <<stack, started, file>>
    /\ UNCHANGED <<runVars, lightVars>>

VisitConstructor(ctor) ==
    /\ CanVisit
    /\ Top.kind_ = "Class"
    /\ DoVisit(Resolve(ctor, Top), "ENTER", Owner)
    /\ UNCHANGED <<stack, started, file>>
    /\ UNCHANGED <<runVars, lightVars>>

VisitMethod(func) ==
    /\ CanVisit
    /\ Top.kind_ = "Class"
    /\ DoVisit(Resolve(func, Top), "ENTER", Owner)
    /\ UNCHANGED <<stack, started, file>>
    /\ UNCHANGED <<runVars, lightVars>>

VisitOther ==
    /\ CanVisit
    /\ DoVisit(Resolve(EnumDecl, Top), "ENTER", Owner)
    /\ UNCHANGED <<stack, started, file>>
    /\ UNCHANGED <<runVars, lightVars>>

\* What Stop leaves in the file and in the error log, given the text the
\* printer holds and whether the file could be opened for writing.
StopFile_WriteUnchecked(text, isOpen) ==
    [state |-> IF isOpen THEN "written" ELSE "failed",
     content |-> text, writes |-> 1, closed |-> TRUE,
     errors |-> IF isOpen THEN <<>> ELSE << "Failed writing PInvoke.cs" >>]

StopFile(text, isOpen) ==
    IF ~isOpen
    THEN [state |-> "failed", content |-> <<>>, writes |-> 0, closed |-> FALSE,
          errors |-> << "Failed writing PInvoke.cs" >>]
    ELSE [state |-> "written", content |-> text, writes |-> 1, closed |-> TRUE,
          errors |-> <<>>]

\* printer_ << "}";    // namespace Urho3D
StopCmds == << L("namespace_close", "}") >>

\* GeneratePInvokePass::Stop, after the traversal has ended.
Stop ==
    /\ started
    /\ file.state = "none"
    /\ stack = <<>>
    /\ printer_' = Run(printer_, StopCmds, 0, 0)
    /\ \E isOpen \in BOOLEAN : file' = StopFile(printer_'.lines, isOpen)
    /\ UNCHANGED <<stack, events, started>>
    /\ UNCHANGED <<runVars, lightVars>>

Next ==
    \/ Start
    \/ Stop
    \/ \E cls \in ClassDecls : VisitClassEnter(cls)
    \/ VisitClassExit
    \/ VisitNamespaceEnter
    \/ VisitNamespaceExit
    \/ \E var \in VariableDecls : VisitVariable(var)
    \/ \E ctor \in ConstructorDecls : VisitConstructor(ctor)
    \/ \E func \in MethodDecls : VisitMethod(func)
    \/ VisitOther

Spec == Init /\ [][Next]_vars

(***************************************************************************)
(* Reading the output: which lines a Visit call wrote, which lines make    *)
(* up a class's block.                                                     *)
(***************************************************************************)
Lines == printer_.lines

\* Indices of the lines written by Visit call e / belonging to the block of
\* the class entered by call e, restricted to the given kinds.
Written(e, kinds) == { i \in DOMAIN Lines : Lines[i].ev = e /\ Lines[i].kind \in kinds }
InBlock(e, kinds) == { i \in DOMAIN Lines : Lines[i].own = e /\ Lines[i].kind \in kinds }

EnterEvents == { e \in DOMAIN events :
                    events[e].decl.kind_ = "Class" /\ events[e].event = "ENTER" }
RootEnters == { e \in EnterEvents : events[e].decl.bases_ = <<>> }
DerivedEnters == { e \in EnterEvents : events[e].decl.bases_ # <<>> }
EventsOfKind(k) == { e \in DOMAIN events : events[e].decl.kind_ = k }

AllCacheLines == { i \in DOMAIN Lines : Lines[i].kind = "cache" }

\* The landmark lines of an emission, in order (blank lines, braces, the
\* DllImport attribute and statement bodies left out).
Landmarks == {"class_head", "cache", "field_instance", "field_disposed", "ctor_head",
              "ctor_proxy", "dispose_head", "finalizer_head", "destructor_fn",
              "getter_fn", "setter_fn", "ctor_fn", "method_fn", "delegate",
              "register_fn"}
IsLandmarkOf(e, l) == l.ev = e /\ l.kind \in Landmarks
RECURSIVE KindsOf(_)
KindsOf(ls) == IF ls = <<>> THEN <<>> ELSE <<Head(ls).kind>> \o KindsOf(Tail(ls))
LandmarksOf(e) == KindsOf(SelectSeq(Lines, LAMBDA l : IsLandmarkOf(e, l)))

(***************************************************************************)
(* C3.  As stated: cache_ is declared once per hierarchy, so the output    *)
(* holds as many cache_ declarations as classes with an empty base list.   *)
(***************************************************************************)
C3_CacheOncePerHierarchy ==
    Cardinality(AllCacheLines) = Cardinality(RootEnters)

\* C3 amended: every class ENTER, root or derived, declares one cache_ of its
\* own (a derived class hides the inherited one with "new"), so the output
\* holds as many cache_ declarations as classes entered.
C3_CachePerClass ==
    /\ \A e \in EnterEvents :
          /\ Cardinality(Written(e, {"cache"})) = 1
          /\ \A i \in Written(e, {"cache"}) :
                Lines[i].text =
                    (IF events[e].decl.bases_ # <<>>
                     THEN "internal static new ConcurrentDictionary<IntPtr, "
                     ELSE "internal static ConcurrentDictionary<IntPtr, ")
                    \o events[e].decl.name_
                    \o "> cache_ = new ConcurrentDictionary<IntPtr, "
                    \o events[e].decl.name_ \o ">();"
    /\ Cardinality(AllCacheLines) = Cardinality(EnterEvents)

C3_Witness ==
    /\ RootEnters # {}
    /\ \E e \in DerivedEnters : Written(e, {"cache"}) # {}

(***************************************************************************)
(* C4.  The block of a class with no base holds exactly one cache_, one    *)
(* instance_ and one disposed_ declaration, whatever members it has.       *)
(***************************************************************************)
C4_RootDeclaresStorageOnce ==
    \A e \in RootEnters :
        /\ Cardinality(InBlock(e, {"cache"})) = 1
        /\ Cardinality(InBlock(e, {"field_instance"})) = 1
        /\ Cardinality(InBlock(e, {"field_disposed"})) = 1

C4_Witness ==
    \E e \in RootEnters :
        /\ \E x \in DOMAIN events : events[x].decl.kind_ = "Class"
                                    /\ events[x].event = "EXIT" /\ events[x].own = e
        /\ InBlock(e, {"ctor_fn"}) # {}
        /\ InBlock(e, {"method_fn"}) # {}
        /\ InBlock(e, {"field_instance"}) # {}

(***************************************************************************)
(* C5.  A class with bases declares neither instance_ nor disposed_; in    *)
(* their place it gets only the constructor forwarding to the base.        *)
(***************************************************************************)
C5_DerivedReusesStorage ==
    \A e \in DerivedEnters :
        /\ Written(e, {"field_instance", "field_disposed"}) = {}
        /\ Written(e, {"ctor_head", "if_nonnull", "assign_instance", "addref"}) = {}
        /\ Cardinality(Written(e, {"ctor_proxy"})) = 1
        /\ \A i \in Written(e, {"ctor_proxy"}) :
              Lines[i].text = "internal " \o events[e].decl.name_
                              \o "(IntPtr instance) : base(instance) { }"

C5_Witness ==
    \E e \in DerivedEnters : Written(e, {"ctor_proxy"}) # {}
                             /\ Written(e, {"destructor_fn"}) # {}

(***************************************************************************)
(* C6.  A virtual method gets, after its boundary function, exactly one    *)
(* delegate and exactly one registration function; a non-virtual method    *)
(* gets the boundary function only.                                        *)
(***************************************************************************)
C6_VirtualRegistration ==
    \A e \in EventsOfKind("Method") :
        LET f == events[e].decl
        IN /\ Cardinality(Written(e, {"method_fn"})) = 1
           /\ IF f.isVirtual
              THEN /\ Cardinality(Written(e, {"delegate"})) = 1
                   /\ Cardinality(Written(e, {"register_fn"})) = 1
                   /\ LandmarksOf(e) = <<"method_fn", "delegate", "register_fn">>
                   /\ \A i \in Written(e, {"register_fn"}) :
                         Lines[i].name = "set_" \o f.parent_.name_ \o "_fn" \o f.name_
              ELSE /\ Written(e, {"delegate", "register_fn", "fnptr_attr"}) = {}
                   /\ LandmarksOf(e) = <<"method_fn">>

C6_Witness ==
    /\ \E e \in EventsOfKind("Method") :
          events[e].decl.isVirtual /\ Written(e, {"register_fn"}) # {}
    /\ \E e \in EventsOfKind("Method") :
          ~events[e].decl.isVirtual /\ Written(e, {"method_fn"}) # {}

(***************************************************************************)
(* C7.  As stated: within a class block the ENTER emission comes first, in *)
(* its fixed order, then all field accessor pairs, then all constructor    *)
(* declarations, then all method declarations, whatever the order of the   *)
(* members in the tree.                                                    *)
(***************************************************************************)
Phase(kind) ==
    CASE kind = "class_head" -> 0
      [] kind = "cache" -> 1
      [] kind \in {"field_instance", "field_disposed"} -> 2
      [] kind \in {"ctor_head", "ctor_proxy"} -> 3
      [] kind = "dispose_head" -> 4
      [] kind = "finalizer_head" -> 5
      [] kind = "destructor_fn" -> 6
      [] kind \in {"getter_fn", "setter_fn"} -> 7
      [] kind = "ctor_fn" -> 8
      [] OTHER -> 9

EnterOrder(cls) ==
    IF cls.bases_ = <<>>
    THEN <<"class_head", "cache", "field_instance", "field_disposed", "ctor_head",
           "dispose_head", "finalizer_head", "destructor_fn">>
    ELSE <<"class_head", "cache", "ctor_proxy",
           "dispose_head", "finalizer_head", "destructor_fn">>

C7_MembersGroupedByKind ==
    \A e \in EnterEvents :
        /\ LandmarksOf(e) = EnterOrder(events[e].decl)
        /\ \A i, j \in InBlock(e, Landmarks) :
              i < j => Phase(Lines[i].kind) <= Phase(Lines[j].kind)

\* C7 amended: the ENTER emission comes first, in its fixed order, with the
\* destructor declaration exactly once; then come the emissions of the members
\* in the order the members are visited, not regrouped by kind.
C7_MembersInVisitOrder ==
    \A e \in EnterEvents :
        /\ LandmarksOf(e) = EnterOrder(events[e].decl)
        /\ Cardinality(Written(e, {"destructor_fn"})) = 1
        /\ \A i, j \in InBlock(e, Landmarks) :
              i < j => /\ Lines[i].ev <= Lines[j].ev
                       /\ (Lines[j].ev = e => Lines[i].ev = e)
        /\ \A m \in DOMAIN events :
              (events[m].own = e /\ m # e /\ Written(m, Landmarks) # {}) =>
                 LandmarksOf(m) =
                    CASE events[m].decl.kind_ = "Variable" -> <<"getter_fn", "setter_fn">>
                      [] events[m].decl.kind_ = "Constructor" -> <<"ctor_fn">>
                      [] events[m].decl.kind_ = "Method" /\ events[m].decl.isVirtual ->
                            <<"method_fn", "delegate", "register_fn">>
                      [] OTHER -> <<"method_fn">>

\* A method visited before a field of the same class, both emitted.
C7_Witness ==
    \E e \in EnterEvents :
        \E i \in InBlock(e, {"method_fn"}), j \in InBlock(e, {"getter_fn"}) : i < j

(***************************************************************************)
(* C8.  Every boundary function name is the sanitized qualified symbol of  *)
(* the declaration being visited plus a fixed role prefix or suffix.       *)
(***************************************************************************)
BoundaryFnKinds ==
    {"destructor_fn", "getter_fn", "setter_fn", "ctor_fn", "method_fn", "register_fn"}
RolePrefixes == {"", "get_", "set_"}
RoleSuffixes == {"", "_destructor"}

C8_NamesFromQualifiedSymbol ==
    \A i \in DOMAIN Lines :
        Lines[i].kind \in BoundaryFnKinds =>
            Lines[i].name \in
                { pre \o Sanitize(events[Lines[i].ev].decl.symbolName_) \o suf :
                    pre \in RolePrefixes, suf \in RoleSuffixes }

(***************************************************************************)
(* C10.  Visit returns true for every declaration and event, and leaves    *)
(* the printer (lines and indentation) as it was for a declaration of a    *)
(* kind it has no branch for, a static variable, and a variable whose      *)
(* parent is not a class.                                                  *)
(***************************************************************************)
IsSkipped(decl) ==
    \/ decl.kind_ \notin HandledKinds
    \/ decl.kind_ = "Variable" /\ decl.isStatic_
    \/ decl.kind_ = "Variable" /\ decl.parent_.kind_ # "Class"

C10_SkippedIsNoOp ==
    [][ events' # events =>
            LET call == events'[Len(events')]
            IN /\ call.ret = TRUE
               /\ IsSkipped(call.decl) => printer_' = printer_ ]_vars

C10_Witness ==
    /\ Lines # <<>>
    /\ \E e \in EventsOfKind("Variable") :
          events[e].decl.isStatic_ /\ events[e].decl.parent_.kind_ = "Class"
    /\ \E e \in EventsOfKind("Variable") :
          ~events[e].decl.isStatic_ /\ events[e].decl.parent_.kind_ # "Class"
    /\ \E e \in DOMAIN events : events[e].decl.kind_ \notin HandledKinds

(***************************************************************************)
(* The emitted members at run time.  A wrapper object of a class chain     *)
(* (root first) is constructed from a handle, then disposed of by          *)
(* concurrent callers and finally by the finalizer thread.  Every caller   *)
(* executes the lines the class ENTER branch emits, one statement a step.  *)
(***************************************************************************)
\* Caller threads (thread 0 is the finalizer thread).
NCallers == 2
\* Largest value of a C# int (disposed_ is declared int).
IntMax == 2147483647

Callers == 1 .. NCallers
FinalizerThread == 0
ThreadIds == Callers \cup {FinalizerThread}

NullHandle == 0
Handle == 1

\* Class chains a wrapper may have: a root, or a root and a class derived
\* from it; reference counting is inherited from the root.
Chains ==
    { << ClassDecl("Shape", <<"Urho3D", "Shape">>, <<>>, rc) >> : rc \in BOOLEAN }
    \cup { << ClassDecl("Shape", <<"Urho3D", "Shape">>, <<>>, rc),
              ClassDecl("Circle", <<"Urho3D", "Circle">>, <<"Shape">>, rc) >> :
           rc \in BOOLEAN }

\* The C# text Visit emits for a class on ENTER.
Emitted(cls) == Run(EmptyPrinter, ClassEnterCmds(cls), 1, 1).lines

\* The C# text of the class at level lvl of the wrapper's chain.
Program(lvl) == wrapper.code[lvl]

HeadOf(prog, kinds) == CHOOSE i \in DOMAIN prog : prog[i].kind \in kinds

\* The closing brace of the block opened right after line i.
BlockEnd(prog, i) ==
    CHOOSE j \in DOMAIN prog :
        /\ j > i /\ prog[j].kind = "}" /\ prog[j].indent = prog[i].indent
        /\ \A k \in DOMAIN prog :
              (k > i /\ k < j) => ~(prog[k].kind = "}" /\ prog[k].indent = prog[i].indent)

RECURSIVE Settle(_, _, _)
\* The next statement to execute at or after pc in the member whose head is
\* line head; 0 when the member's closing brace is reached (return).
Settle(prog, head, pc) ==
    IF pc > Len(prog) THEN 0
    ELSE IF prog[pc].kind = "}" /\ prog[pc].indent = prog[head].indent THEN 0
    ELSE IF prog[pc].kind \in {"{", "}", "blank", "var_self"}
         THEN Settle(prog, head, pc + 1)
    ELSE pc

\* Interlocked.Increment on a 32-bit int.
Increment(x) == IF x = IntMax THEN -IntMax - 1 ELSE x + 1

\* The frame of a call of the member with the given head line, at level lvl.
Enter(lvl, kinds, call) ==
    LET prog == Program(lvl)
        head == HeadOf(prog, kinds)
    IN [lvl |-> lvl, head |-> head, call |-> call,
        pc |-> IF prog[head].kind = "ctor_proxy" THEN head
               ELSE Settle(prog, head, head + 1)]

RECURSIVE Unwind(_)
\* Frames that have reached their closing brace return.
Unwind(frames) ==
    IF frames = <<>> THEN <<>>
    ELSE IF frames[Len(frames)].pc = 0 THEN Unwind(SubSeq(frames, 1, Len(frames) - 1))
    ELSE frames

Idle(t) == threads[t].frames = <<>>

\* Calls started so far: the constructor call, explicit Dispose calls and those
\* made by finalizers.  Each has a record in log, at its number.
NumCalls == Len(log)

\* Dispose calls made by caller threads so far.
NumExplicit ==
    Cardinality({ c \in DOMAIN log : log[c].what = "Dispose" /\ log[c].t \in Callers })

\* The record of a call just started, and of a step it takes.
CallRecord(t, lvl, what) ==
    [t |-> t, lvl |-> lvl, what |-> what, gate |-> 0, steps |-> <<>>]
StepRecord(op, arg) == [op |-> op, arg |-> arg]

InitRuntime ==
    /\ printer_ = EmptyPrinter
    /\ stack = <<>>
    /\ events = <<>>
    /\ started = FALSE
    /\ file = NoFile
    /\ acc = NoAccumulator
    /\ \E chain \in Chains :
          /\ wrapper = [chain |-> chain, instance_ |-> NullHandle, disposed_ |-> 0,
                        state |-> "new",
                        code |-> [lvl \in DOMAIN chain |-> Emitted(chain[lvl])]]
          /\ cache_ = [lvl \in DOMAIN chain |-> IF lvl = Len(chain) THEN {Handle} ELSE {}]
    /\ refs = 1
    /\ threads = [t \in ThreadIds |-> [frames |-> <<>>, arg |-> NullHandle,
                                       finalize |-> 0]]
    /\ log = <<>>

\* new T(instance): the handle constructor of the wrapper's class.
Construct(arg) ==
    /\ wrapper.state = "new"
    /\ wrapper' = [wrapper EXCEPT !.state = "constructing"]
    /\ threads' = [threads EXCEPT ![1].arg = arg,
                       ![1].frames = << Enter(Len(wrapper.chain),
                                              {"ctor_head", "ctor_proxy"},
                                              NumCalls + 1) >>]
    /\ log' = Append(log, CallRecord(1, Len(wrapper.chain), "ctor"))
    /\ UNCHANGED <<cache_, refs>>
    /\ UNCHANGED <<genVars, lightVars>>

\* A caller holding the wrapper as a reference of static type chain[lvl]
\* calls Dispose().
CallDispose(t, lvl) ==
    /\ wrapper.state = "live"
    /\ t \in Callers
    /\ Idle(t)
    /\ NumExplicit < MaxCalls
    /\ LET f == Enter(lvl, {"dispose_head"}, NumCalls + 1)
       IN /\ threads' = [threads EXCEPT ![t].frames = <<f>>]
          /\ log' = Append(log, CallRecord(t, lvl, "Dispose"))
    /\ UNCHANGED <<wrapper, cache_, refs>>
    /\ UNCHANGED <<genVars, lightVars>>

\* The wrapper has become unreachable: the finalizer thread runs ~T() of the
\* most derived class, then that of each base in turn.
Finalize ==
    /\ wrapper.state \in {"live", "finalizing"}
    /\ \A t \in ThreadIds : Idle(t)
    /\ LET lvl == IF wrapper.state = "live" THEN Len(wrapper.chain)
                  ELSE threads[FinalizerThread].finalize
       IN /\ lvl >= 1
          /\ threads' = [threads EXCEPT
                  ![FinalizerThread].frames = << Enter(lvl, {"finalizer_head"}, 0) >>,
                  ![FinalizerThread].finalize = lvl - 1]
    /\ wrapper' = [wrapper EXCEPT !.state = "finalizing"]
    /\ UNCHANGED <<cache_, refs, log>>
    /\ UNCHANGED <<genVars, lightVars>>

\* Thread t executes the statement its innermost frame is at.
Step(t) ==
    /\ ~Idle(t)
    /\ LET th == threads[t]
           n == Len(th.frames)
           f == th.frames[n]
           prog == Program(f.lvl)
           k == prog[f.pc].kind
           below == SubSeq(th.frames, 1, n - 1)
           seq == Settle(prog, f.head, f.pc + 1)
           incremented == Increment(wrapper.disposed_)
           pc1 == CASE k = "if_gate" ->
                         IF incremented = 1 THEN seq
                         ELSE Settle(prog, f.head, BlockEnd(prog, f.pc) + 1)
                    [] k = "if_nonnull" ->
                         IF th.arg # NullHandle THEN seq
                         ELSE Settle(prog, f.head, BlockEnd(prog, f.pc) + 1)
                    [] k = "ctor_proxy" -> 0
                    [] OTHER -> seq
           callee == CASE k = "call_dispose" ->
                            << Enter(f.lvl, {"dispose_head"}, NumCalls + 1) >>
                       [] k = "ctor_proxy" ->
                            << Enter(f.lvl - 1, {"ctor_head", "ctor_proxy"}, f.call) >>
                       [] OTHER -> <<>>
           frames1 == Unwind(Append(below, [f EXCEPT !.pc = pc1]) \o callee)
           step == CASE k = "cache_remove" ->
                          << StepRecord("cache_remove", wrapper.instance_) >>
                     [] k = "release" -> << StepRecord("release", wrapper.instance_) >>
                     [] k = "destroy" -> << StepRecord("destroy", wrapper.instance_) >>
                     [] k = "clear_instance" -> << StepRecord("clear", NullHandle) >>
                     [] k = "assign_instance" -> << StepRecord("store", th.arg) >>
                     [] k = "addref" -> << StepRecord("addref", th.arg) >>
                     [] OTHER -> <<>>
           log1 == IF step # <<>> \/ k = "if_gate"
                   THEN [log EXCEPT ![f.call].steps = @ \o step,
                                    ![f.call].gate = IF k = "if_gate" THEN incremented
                                                     ELSE @]
                   ELSE log
       IN /\ threads' = [threads EXCEPT ![t].frames = frames1]
          /\ log' = IF k = "call_dispose"
                     THEN Append(log1, CallRecord(t, f.lvl, "Dispose"))
                     ELSE log1
          /\ wrapper' =
                [wrapper EXCEPT
                    !.disposed_ = IF k = "if_gate" THEN incremented ELSE @,
                    !.instance_ = CASE k = "assign_instance" -> th.arg
                                    [] k = "clear_instance" -> NullHandle
                                    [] OTHER -> @,
                    !.state = IF @ = "constructing" /\ frames1 = <<>> THEN "live" ELSE @]
          /\ cache_' = IF k = "cache_remove"
                       THEN [cache_ EXCEPT ![f.lvl] = @ \ {wrapper.instance_}]
                       ELSE cache_
          /\ refs' = CASE k = "addref" /\ th.arg # NullHandle -> refs + 1
                       [] k = "release" /\ wrapper.instance_ # NullHandle -> refs - 1
                       [] OTHER -> refs
    /\ UNCHANGED <<genVars, lightVars>>

NextRuntime ==
    \/ \E arg \in {NullHandle, Handle} : Construct(arg)
    \/ \E t \in Callers, lvl \in DOMAIN wrapper.chain : CallDispose(t, lvl)
    \/ Finalize
    \/ \E t \in ThreadIds : Step(t)

SpecRuntime == InitRuntime /\ [][NextRuntime]_vars

(***************************************************************************)
(* Reading the run-time record.                                            *)
(***************************************************************************)
DisposeCalls == { c \in DOMAIN log : log[c].what = "Dispose" }
FinalizerCalls == { c \in DisposeCalls : log[c].t = FinalizerThread }

\* The steps (call, position) of the given kinds taken so far.
StepsTaken(ops) ==
    { cs \in DisposeCalls \X (1 .. 3) :
        cs[2] <= Len(log[cs[1]].steps) /\ log[cs[1]].steps[cs[2]].op \in ops }

ReleaseSteps == StepsTaken({"release", "destroy"})

\* No call is in progress.
Quiescent == \A t \in ThreadIds : Idle(t)

\* Every finalizer of the chain has run to its end.
Finalized ==
    wrapper.state = "finalizing" /\ threads[FinalizerThread].finalize = 0 /\ Quiescent

\* The release step the class at level lvl is to take.
ReleaseOp(lvl) ==
    IF IsSubclassOfRefCounted(wrapper.chain[lvl]) THEN "release" ELSE "destroy"

RECURSIVE OpsOf(_)
OpsOf(steps) == IF steps = <<>> THEN <<>> ELSE <<Head(steps).op>> \o OpsOf(Tail(steps))

IsPrefix(a, b) == Len(a) <= Len(b) /\ a = SubSeq(b, 1, Len(a))

(***************************************************************************)
(* C1.  However many Dispose calls are made on a wrapper, by concurrent    *)
(* callers and by the finalizers, the release/destroy step is executed     *)
(* exactly once, by the call whose increment of disposed_ returned 1.      *)
(***************************************************************************)
C1_ReleaseExactlyOnce ==
    /\ Cardinality(ReleaseSteps) <= 1
    /\ \A cs \in ReleaseSteps :
          /\ log[cs[1]].gate = 1
          /\ log[cs[1]].steps[cs[2]].op = ReleaseOp(log[cs[1]].lvl)
    /\ Cardinality({ c \in DisposeCalls : log[c].gate = 1 }) <= 1
    /\ (Quiescent /\ DisposeCalls # {}) => Cardinality(ReleaseSteps) = 1

\* Two overlapping explicit calls (the later one passed the gate first), a
\* third call, and the finalizers of a two-class chain, all ended.
C1_Witness ==
    /\ Finalized
    /\ Len(wrapper.chain) = 2
    /\ Cardinality(FinalizerCalls) = 2
    /\ Cardinality(DisposeCalls) >= 5
    /\ \E c1, c2 \in DisposeCalls :
          c1 < c2 /\ log[c1].t # log[c2].t /\ log[c2].gate = 1 /\ log[c1].gate = 2
    /\ Cardinality(ReleaseSteps) = 1

(***************************************************************************)
(* C2.  The three steps of the disposal body (cache removal, release or    *)
(* destroy, clearing instance_) run, in this order, only in the call that  *)
(* wins the gate; a call that loses the gate performs none of them.        *)
(***************************************************************************)
C2_AllStepsGated ==
    \A c \in DisposeCalls :
        IF log[c].gate = 1
        THEN IsPrefix(OpsOf(log[c].steps), <<"cache_remove", ReleaseOp(log[c].lvl), "clear">>)
        ELSE log[c].steps = <<>>

(***************************************************************************)
(* C9.  The handle constructor, reached directly (root) or by forwarding   *)
(* (derived): with a non-null handle it stores the handle in instance_     *)
(* and, for a reference-counted class, adds one native reference; with a   *)
(* null handle it stores nothing and changes no reference count.           *)
(***************************************************************************)
Constructed == wrapper.state \in {"live", "finalizing"}

C9_HandleConstructor ==
    Constructed =>
        LET arg == threads[1].arg
            rc == IsSubclassOfRefCounted(wrapper.chain[Len(wrapper.chain)])
        IN /\ log[1].what = "ctor"
           /\ log[1].steps =
                 IF arg = NullHandle THEN <<>>
                 ELSE << StepRecord("store", arg) >>
                      \o (IF rc THEN << StepRecord("addref", arg) >> ELSE <<>>)
           /\ Len(log) = 1 =>
                 /\ wrapper.instance_ = arg
                 /\ refs = IF arg # NullHandle /\ rc THEN 2 ELSE 1

C9_Witness ==
    /\ wrapper.state = "live"
    /\ Len(log) = 1
    /\ Len(wrapper.chain) = 2
    /\ IsSubclassOfRefCounted(wrapper.chain[2])
    /\ wrapper.instance_ = Handle
    /\ refs = 2

(***************************************************************************)
(* C11.  Stop: when the output file cannot be opened, an error is logged,  *)
(* nothing is written and the pass ends; when it opens, the whole text of  *)
(* the printer, closing namespace brace included, is written in one write  *)
(* and the file is closed.  No run writes part of the text.                *)
(***************************************************************************)
C11_StopWritesAllOrNothing ==
    /\ file.state = "none" => file = NoFile
    /\ file.state = "failed" =>
          /\ Len(file.errors) = 1
          /\ file.content = <<>> /\ file.writes = 0
    /\ file.state = "written" =>
          /\ file.errors = <<>>
          /\ file.writes = 1 /\ file.closed
          /\ file.content = Lines
          /\ Lines[Len(Lines)].kind = "namespace_close"
    /\ file.state # "none" => Lines[Len(Lines)].text = "}"
    /\ file.content \in {<<>>, Lines}

C11_Witness ==
    /\ file.state = "failed"
    /\ Len(events) >= 2
    /\ Len(Lines) > 20
    /\ file.content = <<>>

(***************************************************************************)
(* C12.  Determinism: when a run of the pass (Start, the visits, Stop) is  *)
(* complete, a second run over the declarations it visited, in the same    *)
(* order and with the same type mappings, started from an empty printer,   *)
(* produces the text of the first run, line for line and indentation for   *)
(* indentation; so does the file written.                                  *)
(***************************************************************************)
OutputText(lines) ==
    [i \in 1..Len(lines) |-> [indent |-> lines[i].indent, text |-> lines[i].text]]

RECURSIVE Replay(_, _)
Replay(visited, n) ==
    IF n = 0
    THEN Run(EmptyPrinter, StartCmds, 0, 0)
    ELSE LET before == Replay(visited, n - 1)
         IN  IF before.lines = <<>> THEN before    \* Start has not run
             ELSE Run(before, VisitCmds(visited[n].decl, visited[n].event),
                      n, visited[n].own)

SecondRun == Run(Replay(events, Len(events)), StopCmds, 0, 0)

\* Stop has run: the first run is complete.
RunComplete == file.state # "none"

AccessorEvents == { e \in EventsOfKind("Variable") : ~IsSkipped(events[e].decl) }

C13_AccessorPair ==
    \A e \in AccessorEvents :
        LET var == events[e].decl
            ret == ToPInvokeTypeReturn(var.type, FALSE)
            getters == Written(e, {"getter_fn"})
            setters == Written(e, {"setter_fn"})
            marshals == Written(e, {"marshal_ret"})
        IN  /\ Cardinality(getters) = 1
            /\ Cardinality(setters) = 1
            /\ \A g \in getters :
                  /\ Lines[g].text = "internal static extern " \o ret \o " get_"
                                     \o var.cFunctionName_ \o "(IntPtr cls);"
                  /\ \A t \in setters : g < t
            /\ \A t \in setters :
                  /\ Lines[t].text = "internal static extern void set_"
                                     \o var.cFunctionName_ \o "(IntPtr cls, "
                                     \o ToPInvokeTypeParam(var.type) \o " value);"
                  /\ Lines[t - 1].kind = "dllimport"
            /\ Cardinality(marshals) = (IF ret = "string" THEN 1 ELSE 0)
            /\ \A m \in marshals : m + 1 \in getters

C13_Witness ==
    /\ \E e \in AccessorEvents :
          /\ ToPInvokeTypeReturn(events[e].decl.type, FALSE) = "string"
          /\ \E m \in Written(e, {"marshal_ret"}) : Lines[m + 1].kind = "getter_fn"
    /\ \E e \in AccessorEvents :
          /\ ToPInvokeTypeReturn(events[e].decl.type, FALSE) # "string"
          /\ Written(e, {"setter_fn"}) # {}

(***************************************************************************)
(* C14.  Indentation is balanced.  Every Visit changes the indentation     *)
(* level by exactly +1 (class ENTER, root or derived), -1 (class EXIT) or  *)
(* 0 (anything else); the EXIT brings back the level of the class's header *)
(* line; no line is written below level 0; and once every entered class    *)
(* has been left the level is 0 again.                                     *)
(***************************************************************************)
C14_IndentBalanced ==
    [][ events' # events =>
          LET visit == events'[Len(events')]
              isClass == visit.decl.kind_ = "Class"
              delta == IF ~isClass THEN 0
                       ELSE IF visit.event = "ENTER" THEN 1 ELSE -1
              now == printer_'
          IN  /\ now.indent = printer_.indent + delta
              /\ \A i \in (Len(Lines) + 1)..Len(now.lines) : now.lines[i].indent >= 0
              /\ isClass /\ visit.event = "EXIT" =>
                    \E h \in Written(visit.own, {"class_head"}) :
                        now.indent = Lines[h].indent
              /\ now.indent >= 0
              /\ stack' = <<>> => now.indent = 0
      ]_vars

C14_Witness ==
    /\ Len(events) = 4
    /\ Cardinality(RootEnters) = 1
    /\ Cardinality(DerivedEnters) = 1
    /\ stack = <<>>
    /\ printer_.indent = 0
    /\ \E i \in DOMAIN Lines : Lines[i].indent = 3

(***************************************************************************)
(* C17.  As stated: for a wrapper constructed with the non-null handle,    *)
(* the cache removal and the release or destroy call made by the call that *)
(* wins the gate are passed that handle, never the null handle another     *)
(* Dispose call has written into instance_, whatever the interleaving.     *)
(***************************************************************************)
HandleSteps(c) ==
    { i \in DOMAIN log[c].steps :
        log[c].steps[i].op \in {"cache_remove", "release", "destroy"} }

C17_WinnerPassesHandle ==
    Constructed /\ threads[1].arg = Handle =>
        \A c \in DisposeCalls :
            log[c].gate = 1 =>
                \A i \in HandleSteps(c) : log[c].steps[i].arg = Handle

(***************************************************************************)
(* C18.  As stated: two different virtual methods visited in one class,    *)
(* overloads of one name included, get different delegate type names and   *)
(* different registration function names, so the registration blocks of a  *)
(* class never declare one identifier twice.                               *)
(***************************************************************************)
VirtualVisits(e) ==
    { m \in EventsOfKind("Method") : events[m].own = e /\ events[m].decl.isVirtual }

NamesDeclared(m, kinds) == { Lines[i].name : i \in Written(m, kinds) }

C18_RegistrationNamesDistinct ==
    \A e \in EnterEvents :
        \A m1, m2 \in VirtualVisits(e) :
            events[m1].decl # events[m2].decl =>
                /\ NamesDeclared(m1, {"delegate"}) \cap NamesDeclared(m2, {"delegate"}) = {}
                /\ NamesDeclared(m1, {"register_fn"})
                      \cap NamesDeclared(m2, {"register_fn"}) = {}

(***************************************************************************)
(* LightAccumulatorBase (LightAccumulator.h): the lights accumulated for   *)
(* one drawable, kept sorted by penalty; the first firstVertexLight_ of    *)
(* them are per-pixel lights, the ones after them per-vertex lights.       *)
(* Penalties are floats of which only the order matters: small integers.   *)
(***************************************************************************)
MaxLights == 3          \* AccumulateLight calls between two ResetLights
MaxPenalty == 2         \* penalties are 1..MaxPenalty
MaxVertexLimit == 1     \* ctx.maxVertexLights_ is 0..MaxVertexLimit
MaxPixelLimit == 1      \* ctx.maxPixelLights_ is 0..MaxPixelLimit

\* for (unsigned i = 0; i < 4; ++i)
NumVertexLights == 4
\* 0xffffffff, the index of no light
M_MAX_UNSIGNED == -1

LightImportance == {"LI_IMPORTANT", "LI_AUTO", "LI_NOT_IMPORTANT"}

Min(a, b) == IF a < b THEN a ELSE b
Max(a, b) == IF a > b THEN a ELSE b

\* ea::pair<float, unsigned> of lights_
LightEntry(penalty, index) == [penalty |-> penalty, index |-> index]

\* vector_multimap with ea::less<float>: the places at which a new key keeps
\* the container sorted (among equal keys, any).
EmplacePositions(lights, penalty) ==
    { pos \in 1..(Len(lights) + 1) :
        /\ \A i \in 1..(pos - 1) : lights[i].penalty <= penalty
        /\ \A i \in pos..Len(lights) : lights[i].penalty >= penalty }

Emplace(lights, pos, entry) ==
    SubSeq(lights, 1, pos - 1) \o << entry >> \o SubSeq(lights, pos, Len(lights))

\* Mutation: the light dropped is the first of the container.
PopFront(lights) == Tail(lights)

\* lights_.pop_back()
PopBack(lights) == SubSeq(lights, 1, Len(lights) - 1)

\* ea::max(numImportantLights_, ea::min(numImportantLights_ + numAutoLights_,
\*                                       ctx.maxPixelLights_))
FirstVertexLight(numImportant, numAuto, maxPixelLights) ==
    Max(numImportant, Min(numImportant + numAuto, maxPixelLights))

\* A default-constructed accumulator, and the context handed to every call.
\* handed: the lights accumulated since the last reset; emplaced / dropped:
\* the container after the last emplace, and what that call then dropped.
NewAccumulator(maxVertexLights, maxPixelLights) ==
    [lights_ |-> <<>>, numImportantLights_ |-> 0, numAutoLights_ |-> 0,
     firstVertexLight_ |-> 0,
     ctx |-> [maxVertexLights_ |-> maxVertexLights, maxPixelLights_ |-> maxPixelLights],
     handed |-> <<>>, emplaced |-> <<>>, dropped |-> <<>>]

InitLight ==
    /\ printer_ = EmptyPrinter
    /\ stack = <<>>
    /\ events = <<>>
    /\ started = FALSE
    /\ file = NoFile
    /\ wrapper = [cls |-> 0, instance_ |-> 0, disposed_ |-> 0]
    /\ cache_ = <<>>
    /\ refs = 0
    /\ threads = <<>>
    /\ log = <<>>
    /\ \E maxVertexLights \in 0..MaxVertexLimit, maxPixelLights \in 0..MaxPixelLimit :
          acc = NewAccumulator(maxVertexLights, maxPixelLights)

\* LightAccumulatorBase::ResetLights
ResetLights ==
    /\ acc' = [acc EXCEPT !.lights_ = <<>>,
                          !.numImportantLights_ = 0,
                          !.numAutoLights_ = 0,
                          !.handed = <<>>, !.emplaced = <<>>, !.dropped = <<>>]
    /\ UNCHANGED <<genVars, runVars>>

\* LightAccumulatorBase::AccumulateLight(ctx, penalty); ctx.lightIndex_ is the
\* position of the light among those handed over since the reset, from 0.
AccumulateLight(lightImportance_, penalty) ==
    /\ Len(acc.handed) < MaxLights
    /\ \E pos \in EmplacePositions(acc.lights_, penalty) :
        LET lightIndex_ == Len(acc.handed)
            numImportant == acc.numImportantLights_
                            + (IF lightImportance_ = "LI_IMPORTANT" THEN 1 ELSE 0)
            numAuto == acc.numAutoLights_
                       + (IF lightImportance_ = "LI_AUTO" THEN 1 ELSE 0)
            emplaced == Emplace(acc.lights_, pos, LightEntry(penalty, lightIndex_))
            first == FirstVertexLight(numImportant, numAuto, acc.ctx.maxPixelLights_)
            maxLights == acc.ctx.maxVertexLights_ + first
            tooMany == Len(emplaced) > maxLights
            kept == IF tooMany THEN PopBack(emplaced) ELSE emplaced
            gone == SelectSeq(emplaced,
                              LAMBDA e : \A i \in DOMAIN kept : kept[i] # e)
        IN acc' = [acc EXCEPT
                     !.numImportantLights_ = numImportant,
                     !.numAutoLights_ = numAuto,
                     !.firstVertexLight_ = first,
                     !.lights_ = kept,
                     !.handed = Append(@, [index |-> lightIndex_, penalty |-> penalty,
                                           importance |-> lightImportance_]),
                     !.emplaced = emplaced,
                     !.dropped = gone]
    /\ UNCHANGED <<genVars, runVars>>

\* LightAccumulatorBase::GetVertexLights
GetVertexLights ==
    [i \in 1..NumVertexLights |->
        LET index == (i - 1) + acc.firstVertexLight_
        IN IF index < Len(acc.lights_) THEN acc.lights_[index + 1].index
           ELSE M_MAX_UNSIGNED]

\* LightAccumulatorBase::GetPixelLights
GetPixelLights ==
    SubSeq(acc.lights_, 1, Min(Len(acc.lights_), acc.firstVertexLight_))

NextLight ==
    \/ ResetLights
    \/ \E lightImportance_ \in LightImportance, penalty \in 1..MaxPenalty :
          AccumulateLight(lightImportance_, penalty)

SpecLight == InitLight /\ [][NextLight]_vars

(***************************************************************************)
(* C15.  As stated: after ResetLights and any sequence of AccumulateLight  *)
(* calls with one context, firstVertexLight_ is                            *)
(* max(numImportantLights_, min(numImportantLights_ + numAutoLights_,      *)
(* maxPixelLights_)), at most maxVertexLights_ + firstVertexLight_ lights  *)
(* are held, and a light that a call drops has the greatest penalty of the *)
(* lights held, the one just added included.                               *)
(***************************************************************************)
FirstVertexLightAsCounted ==
    acc.firstVertexLight_ =
        Max(acc.numImportantLights_,
            Min(acc.numImportantLights_ + acc.numAutoLights_, acc.ctx.maxPixelLights_))

HeldWithinLimit ==
    Len(acc.lights_) <= acc.ctx.maxVertexLights_ + acc.firstVertexLight_

DroppedHasGreatestPenalty ==
    \A d \in DOMAIN acc.dropped :
        /\ \A i \in DOMAIN acc.emplaced : acc.emplaced[i].penalty <= acc.dropped[d].penalty
        /\ \E i \in DOMAIN acc.emplaced : acc.emplaced[i] = acc.dropped[d]
        /\ Len(acc.lights_) = Len(acc.emplaced) - 1
        /\ \A i \in DOMAIN acc.lights_ : acc.lights_[i].penalty <= acc.dropped[d].penalty

C15_AfterAnySequence ==
    /\ FirstVertexLightAsCounted
    /\ HeldWithinLimit
    /\ DroppedHasGreatestPenalty

(***************************************************************************)
(* C15, amended: the equation for firstVertexLight_ holds once a light has *)
(* been accumulated since the reset (ResetLights zeroes the two counters   *)
(* and leaves firstVertexLight_ as it was); the limit on the lights held   *)
(* and the penalty of a dropped light hold throughout.                     *)
(***************************************************************************)
C15_AfterSomeLight ==
    /\ acc.handed # <<>> => FirstVertexLightAsCounted
    /\ HeldWithinLimit
    /\ DroppedHasGreatestPenalty
    /\ acc.handed = <<>> => acc.lights_ = <<>>

C15_Witness ==
    /\ acc.dropped # <<>>
    /\ Len(acc.handed) = 3
    /\ acc.numImportantLights_ >= 1
    /\ acc.numAutoLights_ >= 1
    /\ acc.firstVertexLight_ > acc.ctx.maxPixelLights_
    /\ Len(acc.lights_) = acc.ctx.maxVertexLights_ + acc.firstVertexLight_

(***************************************************************************)
(* C16.  As stated: every light accumulated as LI_IMPORTANT since the      *)
(* reset is still held and is one of GetPixelLights, so it has not been    *)
(* dropped and is not one of GetVertexLights, also when there are more     *)
(* important lights than maxPixelLights_.                                  *)
(***************************************************************************)
PixelLightIndexes == { GetPixelLights[i].index : i \in DOMAIN GetPixelLights }
VertexLightIndexes == { GetVertexLights[i] : i \in DOMAIN GetVertexLights }
HeldIndexes == { acc.lights_[i].index : i \in DOMAIN acc.lights_ }

C16_ImportantLightsPerPixel ==
    \A k \in DOMAIN acc.handed :
        acc.handed[k].importance = "LI_IMPORTANT" =>
            /\ acc.handed[k].index \in HeldIndexes
            /\ acc.handed[k].index \in PixelLightIndexes
            /\ acc.handed[k].index \notin VertexLightIndexes

====
